---- MODULE Spec2Model ----
(***************************************************************************)
(* A model of objects/channel.py (class Channel) of gulag: one chat        *)
(* channel, the sessions (players) that join and leave it, the fan-out of  *)
(* messages to the members' outbound queues, and the deletion of an        *)
(* instance channel from the global channel list (glob.channels) when its  *)
(* last member leaves.                                                     *)
(*                                                                         *)
(* Session-handling tasks are asyncio tasks, one per connected client:     *)
(* they interleave only at an await.  The only await of the class is the   *)
(* one of Channel.remove (line 130), so every other method is one atomic   *)
(* step, and remove is two steps when it takes the teardown branch: the    *)
(* call is then suspended (a member of pending) until the directory's      *)
(* coroutine completes.                                                    *)
(***************************************************************************)
EXTENDS Integers, Sequences, FiniteSets, TLC

(* ------------------------------------------------------------------ *)
(* Bounds of the model                                                  *)
(* ------------------------------------------------------------------ *)

\* at most this many calls of the channel's methods in one behaviour
MaxCalls == 4
\* at most this many of them are fan-outs (send, send_selective, enqueue)
MaxFanouts == 2

\* the sessions (Player objects) that may use the channel
Sessions == {"p", "q", "r"}
\* the message texts a client may send: each text is tagged with the number
\* of the call that sends it, so that two messages can be told apart
Msgs == 1..MaxCalls
\* the target lists send_selective may be given (a target may be listed twice)
TargetLists == { <<>>, <<"p">>, <<"p", "q">>, <<"p", "p">> }
\* the channel object itself, as an element of glob.channels
Self == "self"

\* internal names a channel may be constructed with
Names == { <<"#", "s", "p", "e", "c", "_", "4", "2">>,
           <<"#", "g", "e", "n", "e", "r", "a", "l">> }

VARIABLES
    rawname,      \* self._name
    topic,        \* self.topic
    read,         \* self.read
    write,        \* self.write
    auto_join,    \* self.auto_join
    instance,     \* self.instance
    players,      \* self.players: a list, in append order
    channels,     \* glob.channels, restricted to this channel: {} or {Self}
    queues,       \* each session's outbound queue (what Player.enqueue fills)
    closed,       \* the sessions whose enqueue fails (queue closed)
    pending,      \* the remove calls suspended at the await of line 130
    removeCalls,  \* history: number of invocations of glob.channels.remove
    deleted,      \* history: glob.channels.remove has removed the channel
    joins,        \* history: number of append calls that returned
    leaves,       \* history: number of remove calls that returned normally
    calls,        \* history: number of calls of the channel's methods
    fanouts,      \* history: number of fan-out calls among them
    dupJoin,      \* history: some append named a session already present
    badLeave,     \* history: how the removes of a session not present ended
    raced,        \* history: sessions appended while a teardown was suspended
    last          \* history: the call that returned (or suspended) last

\* the attributes __init__ sets from its arguments
config == << rawname, topic, read, write, auto_join, instance >>

vars == << rawname, topic, read, write, auto_join, instance, players,
           channels, queues, closed, pending, removeCalls, deleted, joins, leaves,
           calls, fanouts, dupJoin, badLeave, raced, last >>

(* ------------------------------------------------------------------ *)
(* Helpers                                                              *)
(* ------------------------------------------------------------------ *)

Range(s) == { s[i] : i \in 1..Len(s) }

\* Player.id: distinct sessions have distinct ids
PlayerId(p) == CASE p = "p" -> 3 [] p = "q" -> 4 [] OTHER -> 5

\* Player.name
PlayerName(p) == p

NoGot == [s \in Sessions |-> 0]

\* The record of a finished step of a call.
\*   op      the method
\*   arg     the session argument (client of a send)
\*   ok      TRUE when the call returned, FALSE when it raised
\*   branch  "teardown", "else", "suspend" for remove; "" otherwise
\*   pre     self.players when the call started
\*   prech   glob.channels when the call started
\*   got     copies of the payload each session's queue received in the pass
\*   immune  the immune ids of the pass
\*   to_self the to_self flag of a send
\*   order   the sessions a fan-out enqueued to, in the order of the calls
\*   targets the target list of a send_selective
Ret(op, arg, ok, branch, pre, prech, got, immune, to_self) ==
    [op |-> op, arg |-> arg, ok |-> ok, branch |-> branch, pre |-> pre,
     prech |-> prech, got |-> got, immune |-> immune, to_self |-> to_self,
     order |-> <<>>, targets |-> <<>>]

StartsWith(s, prefix) ==
    /\ Len(s) >= Len(prefix)
    /\ SubSeq(s, 1, Len(prefix)) = prefix

\* a variant of name that tests the prefixes without their underscore
name_loose_prefix ==
    IF StartsWith(rawname, <<"#", "s", "p", "e", "c">>)
    THEN <<"#", "s", "p", "e", "c", "t", "a", "t", "o", "r">>
    ELSE IF StartsWith(rawname, <<"#", "m", "u", "l", "t", "i">>)
    THEN <<"#", "m", "u", "l", "t", "i", "p", "l", "a", "y", "e", "r">>
    ELSE rawname

\* Channel.name (property)
name ==
    IF StartsWith(rawname, <<"#", "s", "p", "e", "c", "_">>)
    THEN <<"#", "s", "p", "e", "c", "t", "a", "t", "o", "r">>
    ELSE IF StartsWith(rawname, <<"#", "m", "u", "l", "t", "i", "_">>)
    THEN <<"#", "m", "u", "l", "t", "i", "p", "l", "a", "y", "e", "r">>
    ELSE rawname

\* Channel.basic_info (property)
basic_info == << name, topic, Len(players) >>

\* Channel.__contains__
contains(p) == p \in Range(players)

\* packets.sendMessage: the encoded chat packet
sendMessage(client, msg, target, client_id) ==
    [client |-> client, msg |-> msg, target |-> target, client_id |-> client_id]

(* ------------------------------------------------------------------ *)
(* The pieces of the methods                                            *)
(* ------------------------------------------------------------------ *)

\* a variant of append_players that inserts the session twice
append_players_twice(p) == Append(Append(players, p), p)

\* a variant of append_players that inserts the session at the front
append_players_front(p) == <<p>> \o players

\* line 122: self.players.append(p)
append_players(p) == Append(players, p)

\* a variant of last_of_instance that tests for an empty list
last_of_instance_empty == Len(players) = 0 /\ instance

\* a variant of last_of_instance that forgets the instance flag
last_of_instance_any == Len(players) = 1

\* a variant of last_of_instance that negates the instance flag
last_of_instance_negated == Len(players) = 1 /\ ~instance

\* line 126: len(self.players) == 1 and self.instance
last_of_instance == Len(players) = 1 /\ instance

\* list.remove(x): drops the first occurrence of x
RECURSIVE list_remove(_, _)
list_remove(s, x) ==
    IF s = <<>> THEN <<>>
    ELSE IF Head(s) = x THEN Tail(s)
    ELSE <<Head(s)>> \o list_remove(Tail(s), x)

\* line 132: self.players.remove(p)
remove_players(p) == list_remove(players, p)

\* a variant of send_immune with the two cases swapped
send_immune_swapped(client, to_self) == IF to_self THEN {PlayerId(client)} ELSE {}

\* line 106: immune = () if to_self else (client.id,)
send_immune(client, to_self) == IF to_self THEN {} ELSE {PlayerId(client)}

\* a variant of skipped with the test negated
skipped_negated(p, immune) == PlayerId(p) \notin immune

\* line 137: if p.id in immune: continue
skipped(p, immune) == PlayerId(p) \in immune

\* glob.channels holds the channel
directory_holds == Self \in channels

\* list.remove(self) on glob.channels: the list without the channel
directory_remove == channels \ {Self}

\* Player.enqueue(data) raises when the session's queue is closed
enqueue_fails(p) == p \in closed

\* lines 136-140: the loop of Channel.enqueue from index i on.  An exception
\* of Player.enqueue leaves the loop (there is no try in the method).
\* a variant of enqueue_loop that stops before the last entry of the list
RECURSIVE enqueue_loop_short(_, _, _, _, _, _)
enqueue_loop_short(i, qs, got, order, data, immune) ==
    IF i >= Len(players)
    THEN [queues |-> qs, got |-> got, order |-> order, ok |-> TRUE]
    ELSE LET p == players[i] IN
         IF skipped(p, immune)
         THEN enqueue_loop_short(i + 1, qs, got, order, data, immune)
         ELSE enqueue_loop_short(i + 1,
                                 [qs EXCEPT ![p] = Append(@, data)],
                                 [got EXCEPT ![p] = @ + 1],
                                 Append(order, p),
                                 data, immune)

\* qs, got and order are the queues, the copies delivered and the recipients
\* served so far.
RECURSIVE enqueue_loop(_, _, _, _, _, _)
enqueue_loop(i, qs, got, order, data, immune) ==
    IF i > Len(players)
    THEN [queues |-> qs, got |-> got, order |-> order, ok |-> TRUE]
    ELSE LET p == players[i] IN
         IF skipped(p, immune)
         THEN enqueue_loop(i + 1, qs, got, order, data, immune)
         ELSE IF enqueue_fails(p)
         THEN [queues |-> qs, got |-> got, order |-> order, ok |-> FALSE]
         ELSE enqueue_loop(i + 1,
                           [qs EXCEPT ![p] = Append(@, data)],
                           [got EXCEPT ![p] = @ + 1],
                           Append(order, p),
                           data, immune)

\* lines 112-118: the loop of Channel.send_selective from index i on
RECURSIVE selective_loop(_, _, _, _, _, _)
selective_loop(i, qs, got, order, data, targets) ==
    IF i > Len(targets)
    THEN [queues |-> qs, got |-> got, order |-> order, ok |-> TRUE]
    ELSE LET p == targets[i] IN
         IF enqueue_fails(p)
         THEN [queues |-> qs, got |-> got, order |-> order, ok |-> FALSE]
         ELSE selective_loop(i + 1,
                             [qs EXCEPT ![p] = Append(@, data)],
                             [got EXCEPT ![p] = @ + 1],
                             Append(order, p),
                             data, targets)

(* ------------------------------------------------------------------ *)
(* Initial state: a channel as Channel.__init__ leaves it              *)
(* ------------------------------------------------------------------ *)

\* an instance channel is constructed with a '#spec_<id>' name, a channel that
\* is not an instance with a name of its own
InstanceNamed(n, inst) ==
    inst <=> StartsWith(n, <<"#", "s", "p", "e", "c", "_">>)

Init ==
    /\ rawname \in Names
    /\ topic = "topic"
    /\ read = "Normal"
    /\ write = "Normal"
    /\ auto_join = TRUE
    /\ instance \in BOOLEAN
    /\ InstanceNamed(rawname, instance)
    /\ players = <<>>
    /\ channels = {}
    /\ queues = [s \in Sessions |-> <<>>]
    /\ closed = {}
    /\ pending = {}
    /\ removeCalls = 0
    /\ deleted = FALSE
    /\ joins = 0
    /\ leaves = 0
    /\ calls = 0
    /\ fanouts = 0
    /\ dupJoin = FALSE
    /\ badLeave = {}
    /\ raced = {}
    /\ last = Ret("init", "none", TRUE, "", <<>>, {}, NoGot, {}, FALSE)

(* ------------------------------------------------------------------ *)
(* Actions                                                              *)
(* ------------------------------------------------------------------ *)

\* The directory registers the channel it constructed (glob.channels gets the
\* channel): it does so right after the construction, or not at all.
register ==
    /\ Self \notin channels
    /\ last.op = "init"
    /\ channels' = channels \cup {Self}
    /\ last' = Ret("register", "none", TRUE, "", players, channels, NoGot, {}, FALSE)
    /\ UNCHANGED << config, players, queues, closed, pending,
                    removeCalls, deleted, joins, leaves, calls, fanouts, dupJoin, badLeave,
                    raced >>

\* Channel.append(p)
append(p) ==
    /\ calls < MaxCalls
    /\ calls' = calls + 1
    /\ players' = append_players(p)
    /\ joins' = joins + 1
    /\ dupJoin' = (dupJoin \/ contains(p))
    /\ raced' = IF pending # {} THEN raced \cup {p} ELSE raced
    /\ last' = Ret("append", p, TRUE, "", players, channels, NoGot, {}, FALSE)
    /\ UNCHANGED << config, channels, queues, closed, pending,
                    removeCalls, deleted, leaves, fanouts, badLeave >>

\* Channel.remove(p), up to its return or to the await of line 130
remove(p) ==
    /\ calls < MaxCalls
    /\ calls' = calls + 1
    /\ IF last_of_instance
       THEN \* line 130: glob.channels.remove(self) is invoked and awaited
            /\ removeCalls' = removeCalls + 1
            /\ pending' = pending \cup
                   {[id |-> removeCalls + 1, arg |-> p, pre |-> players, prech |-> channels]}
            /\ last' = Ret("remove", p, TRUE, "suspend", players, channels, NoGot, {}, FALSE)
            /\ UNCHANGED << players, leaves, badLeave >>
       ELSE IF contains(p)
       THEN \* line 132
            /\ players' = remove_players(p)
            /\ leaves' = leaves + 1
            /\ last' = Ret("remove", p, TRUE, "else", players, channels, NoGot, {}, FALSE)
            /\ UNCHANGED << pending, removeCalls, badLeave >>
       ELSE \* line 132: list.remove raises ValueError
            /\ badLeave' = badLeave \cup {"raised"}
            /\ last' = Ret("remove", p, FALSE, "else", players, channels, NoGot, {}, FALSE)
            /\ UNCHANGED << players, leaves, pending, removeCalls >>
    /\ UNCHANGED << config, channels,
                    queues, closed, deleted, joins, fanouts, dupJoin, raced >>

\* The awaited glob.channels.remove(self) of the suspended call c completes and
\* Channel.remove returns: the directory drops the channel, or raises when it
\* does not hold it.
channels_remove(c) ==
    /\ c \in pending
    /\ pending' = pending \ {c}
    /\ channels' = directory_remove
    /\ deleted' = (deleted \/ directory_holds)
    /\ leaves' = IF directory_holds THEN leaves + 1 ELSE leaves
    /\ last' = Ret("remove", c.arg, directory_holds, "teardown",
                   c.pre, c.prech, NoGot, {}, FALSE)
    /\ badLeave' = IF c.arg \in Range(c.pre) THEN badLeave
                   ELSE badLeave \cup {IF directory_holds THEN "returned" ELSE "raised"}
    /\ UNCHANGED << config, players, queues, closed, removeCalls,
                    joins, calls, fanouts, dupJoin, raced >>

\* the effect of a fan-out whose loop ended as r: only the queues change
\* a variant of delivered in which the pass takes the skipped members out
\* of self.players
delivered_dropping_immune(op, client, r, immune, to_self, targets) ==
    /\ calls < MaxCalls
    /\ fanouts < MaxFanouts
    /\ calls' = calls + 1
    /\ fanouts' = fanouts + 1
    /\ queues' = r.queues
    /\ players' = SelectSeq(players, LAMBDA x : PlayerId(x) \notin immune)
    /\ last' = [Ret(op, client, r.ok, "", players, channels, r.got, immune, to_self)
                   EXCEPT !.order = r.order, !.targets = targets]
    /\ UNCHANGED << config, channels, closed, pending,
                    removeCalls, deleted, joins, leaves, dupJoin, badLeave, raced >>

delivered(op, client, r, immune, to_self, targets) ==
    /\ calls < MaxCalls
    /\ fanouts < MaxFanouts
    /\ calls' = calls + 1
    /\ fanouts' = fanouts + 1
    /\ queues' = r.queues
    /\ last' = [Ret(op, client, r.ok, "", players, channels, r.got, immune, to_self)
                   EXCEPT !.order = r.order, !.targets = targets]
    /\ UNCHANGED << config, players, channels, closed, pending,
                    removeCalls, deleted, joins, leaves, dupJoin, badLeave, raced >>

\* Channel.enqueue(data, immune) as one pass over self.players
fanout(op, client, data, immune, to_self) ==
    delivered(op, client, enqueue_loop(1, queues, NoGot, <<>>, data, immune),
              immune, to_self, <<>>)

\* Channel.send(client, msg, to_self)
send(client, msg, to_self) ==
    /\ msg = calls + 1
    /\ fanout("send", client,
              sendMessage(PlayerName(client), msg, name, PlayerId(client)),
              send_immune(client, to_self), to_self)

\* Channel.enqueue(data, immune), called by a collaborator with a packet of
\* the server's own (no sending session)
enqueue(msg, immune) ==
    /\ msg = calls + 1
    /\ fanout("enqueue", "none", sendMessage("server", msg, name, 0), immune, FALSE)

\* The properties and __contains__ (name, basic_info, p in channel) are read:
\* none of them assigns anything.
query ==
    /\ last.op # "query"
    /\ last' = Ret("query", "none", TRUE, "", players, channels, NoGot, {}, FALSE)
    /\ UNCHANGED << config, players, channels, queues, closed, pending,
                    removeCalls, deleted, joins, leaves, calls, fanouts, dupJoin,
                    badLeave, raced >>

\* a variant of send_selective that fans out to the members, as send does
send_selective_to_members(client, msg, targets) ==
    /\ msg = calls + 1
    /\ delivered("send_selective", client,
                 enqueue_loop(1, queues, NoGot, <<>>,
                              sendMessage(PlayerName(client), msg, name, PlayerId(client)),
                              {PlayerId(client)}),
                 {}, FALSE, targets)

\* Channel.send_selective(client, msg, targets)
send_selective(client, msg, targets) ==
    /\ msg = calls + 1
    /\ delivered("send_selective", client,
                 selective_loop(1, queues, NoGot, <<>>,
                                sendMessage(PlayerName(client), msg, name, PlayerId(client)),
                                targets),
                 {}, FALSE, targets)

\* the calls that change the membership or the registration
NextMembership ==
    \/ register
    \/ \E p \in Sessions : append(p)
    \/ \E p \in Sessions : remove(p)
    \/ \E c \in pending : channels_remove(c)

Next ==
    \/ NextMembership
    \/ \E c \in Sessions, m \in Msgs, ts \in BOOLEAN : send(c, m, ts)

Spec == Init /\ [][Next]_vars

(* ------------------------------------------------------------------ *)
(* The same program with the other two fan-out methods                 *)
(* ------------------------------------------------------------------ *)

\* the immune tuples Channel.enqueue may be given
ImmuneSets == SUBSET {PlayerId(x) : x \in Sessions}

\* send and enqueue
NextEnqueue ==
    \/ Next
    \/ \E m \in Msgs, im \in ImmuneSets : enqueue(m, im)

SpecEnqueue == Init /\ [][NextEnqueue]_vars

\* send_selective
NextSelective ==
    \/ NextMembership
    \/ \E c \in Sessions, m \in Msgs, ts \in TargetLists : send_selective(c, m, ts)

SpecSelective == Init /\ [][NextSelective]_vars

\* every method of the class, enqueue and send_selective with two inputs each
NextAll ==
    \/ Next
    \/ query
    \/ \E m \in Msgs, im \in {{}, {PlayerId("p")}} : enqueue(m, im)
    \/ \E c \in Sessions, m \in Msgs, ts \in {<<"p">>, <<"q", "p">>} :
          send_selective(c, m, ts)

SpecAll == Init /\ [][NextAll]_vars

(* ------------------------------------------------------------------ *)
(* Channels of any name and topic, joined and written to               *)
(* ------------------------------------------------------------------ *)

\* the internal names the display name is computed for
NamesAll ==
    { <<"#", "s", "p", "e", "c", "_", "4", "2">>,
      <<"#", "m", "u", "l", "t", "i", "_", "7">>,
      <<"#", "g", "e", "n", "e", "r", "a", "l">>,
      <<"#", "s", "p", "e", "c", "_">>,
      <<"#", "m", "u", "l", "t", "i", "_">>,
      <<"#", "s", "p", "e", "c">>,
      <<"#", "m", "u", "l", "t", "i", "p", "l", "a", "y", "e", "r">>,
      <<"s", "p", "e", "c", "_", "1">>,
      <<"#", "S", "p", "e", "c", "_", "1">>,
      <<"x", "#", "s", "p", "e", "c", "_", "1">>,
      << >> }

\* the topics a channel may be constructed with
Topics == {"topic", "other topic"}

InitName ==
    /\ rawname \in NamesAll
    /\ topic \in Topics
    /\ read = "Normal"
    /\ write = "Normal"
    /\ auto_join = TRUE
    /\ instance \in BOOLEAN
    /\ players = <<>>
    /\ channels = {}
    /\ queues = [s \in Sessions |-> <<>>]
    /\ closed = {}
    /\ pending = {}
    /\ removeCalls = 0
    /\ deleted = FALSE
    /\ joins = 0
    /\ leaves = 0
    /\ calls = 0
    /\ fanouts = 0
    /\ dupJoin = FALSE
    /\ badLeave = {}
    /\ raced = {}
    /\ last = Ret("init", "none", TRUE, "", <<>>, {}, NoGot, {}, FALSE)

\* sessions join, and send with the channel's display name as the target
NextName ==
    \/ \E p \in Sessions : append(p)
    \/ \E c \in Sessions, m \in Msgs, ts \in BOOLEAN : send(c, m, ts)

SpecName == InitName /\ [][NextName]_vars

(* ------------------------------------------------------------------ *)
(* The same program with sessions whose outbound queue may be closed   *)
(* ------------------------------------------------------------------ *)

\* at most this many sessions have their queue closed
MaxClosed == 1

\* a session's outbound queue is closed (its connection went away)
close(s) ==
    /\ s \notin closed
    /\ Cardinality(closed) < MaxClosed
    /\ closed' = closed \cup {s}
    /\ last' = Ret("close", s, TRUE, "", players, channels, NoGot, {}, FALSE)
    /\ UNCHANGED << config, players, channels, queues, pending,
                    removeCalls, deleted, joins, leaves, calls, fanouts, dupJoin, badLeave,
                    raced >>

NextClosed ==
    \/ Next
    \/ \E s \in Sessions : close(s)

SpecClosed == Init /\ [][NextClosed]_vars

(* ------------------------------------------------------------------ *)
(* Properties                                                           *)
(* ------------------------------------------------------------------ *)

\* the call that ended last is a remove that has returned or raised
RemoveEnded == last.op = "remove" /\ last.branch # "suspend"

\* the payload of the send that ended last is the last entry of s's queue
LastPayloadOf(s) ==
    /\ queues[s] # <<>>
    /\ \E m \in Msgs :
          queues[s][Len(queues[s])]
              = sendMessage(PlayerName(last.arg), m, name, PlayerId(last.arg))

\* C1: the members list never holds the same session twice, and an append of a
\* session that is already a member leaves the list as it was.
C1_NoDuplicateMembers ==
    /\ \A i, j \in 1..Len(players) : i # j => players[i] # players[j]
    /\ (last.op = "append" /\ last.arg \in Range(last.pre)) => players = last.pre

\* C2: when remove(p) of an instance channel whose only member was p returns,
\* the channel is not in glob.channels.
C2_TeardownDeregisters ==
    (instance /\ RemoveEnded /\ last.ok /\ last.pre = <<last.arg>>)
        => Self \notin channels

C2_Witness ==
    /\ instance /\ RemoveEnded /\ last.ok /\ last.pre = <<last.arg>>
    /\ last.branch = "teardown"
    /\ Self \in last.prech
    /\ Self \notin channels

\* C3: glob.channels.remove is invoked at most once for the channel.
C3_RemoveChannelAtMostOnce == removeCalls <= 1

\* C4: no session that joined while the last member's remove was suspended
\* is a member of a channel that was deleted from the directory.
C4_NoJoinIntoDeletedChannel ==
    ~ (deleted /\ Self \notin channels /\ \E q \in raced : contains(q))

\* C5: a remove of a session that is not a member does not ask the directory
\* to delete the channel and leaves the members list and the registration as
\* they were, and all such removes end the same way.
C5_NonMemberLeaveChangesNothing ==
    /\ (last.op = "remove" /\ last.arg \notin Range(last.pre)) =>
          /\ last.branch = "else"
          /\ players = last.pre
          /\ channels = last.prech
    /\ Cardinality(badLeave) <= 1

\* C6: a send enqueues the packet to exactly the members other than the
\* sender, or to exactly the members when to_self is set.
C6_BroadcastRecipients ==
    last.op = "send" =>
        \A s \in Sessions :
            /\ last.got[s] > 0 <=> (contains(s) /\ (last.to_self \/ s # last.arg))
            /\ last.got[s] > 0 => LastPayloadOf(s)

C6_Witness ==
    /\ last.op = "send" /\ ~last.to_self
    /\ Range(players) = Sessions
    /\ last.got[last.arg] = 0
    /\ \A s \in Sessions \ {last.arg} : last.got[s] = 1 /\ LastPayloadOf(s)

\* C7: a channel that is not an instance never has glob.channels.remove
\* invoked, and when its only member leaves it is empty, reports 0 members
\* and is registered as before.
C7_NonInstanceStaysRegistered ==
    ~instance =>
        /\ removeCalls = 0 /\ pending = {} /\ ~deleted
        /\ (last.op = "remove" /\ last.pre = <<last.arg>>) =>
              /\ last.ok
              /\ players = <<>>
              /\ basic_info[3] = 0
              /\ channels = last.prech

C7_Witness ==
    /\ ~instance
    /\ last.op = "remove" /\ last.pre = <<last.arg>>
    /\ Self \in channels
    /\ basic_info[3] = 0

\* C8, as stated: an instance channel with no members is not in glob.channels.
C8_EmptyInstanceNotRegistered ==
    (instance /\ players = <<>>) => Self \notin channels

\* C8, amended: an instance channel with no members that is in glob.channels
\* is one that no session has joined yet.
C8_EmptyRegisteredInstanceIsFresh ==
    (instance /\ players = <<>> /\ Self \in channels) => joins = 0

C8_Witness ==
    /\ instance /\ players = <<>> /\ Self \in channels
    /\ last.op = "remove" /\ ~last.ok

\* C9: without a join of a present session, a leave of an absent session or a
\* deletion of the channel, the member count is #joins - #leaves.
C9_CountIsJoinsMinusLeaves ==
    (~dupJoin /\ badLeave = {} /\ ~deleted) => basic_info[3] = joins - leaves

C9_Witness ==
    /\ ~dupJoin /\ badLeave = {} /\ ~deleted
    /\ joins >= 3 /\ leaves >= 1
    /\ last.op = "remove" /\ last.ok
    /\ basic_info[3] = joins - leaves

\* C10: a fan-out enqueues to every member that is not immune and whose own
\* queue accepts the packet, also after a member whose queue is closed.
C10_FanoutReachesEveryOpenQueue ==
    last.op = "send" =>
        \A i \in 1..Len(players) :
            (~skipped(players[i], last.immune) /\ ~enqueue_fails(players[i]))
                => last.got[players[i]] > 0

\* C11: a join, leave or broadcast made after the channel was deleted from the
\* directory ends with an error and leaves the members list as it was.
C11_NoCallSucceedsAfterDestroyed ==
    (/\ deleted
     /\ \/ last.op \in {"append", "send"}
        \/ last.op = "remove" /\ last.branch = "else")
        => (~last.ok /\ players = last.pre)

\* the number of times x occurs in the list s
Occurrences(s, x) == Cardinality({i \in 1..Len(s) : s[i] = x})

\* C12: send_selective enqueues the packet once per entry of targets, to the
\* sessions listed there and to no other session, member or not.
C12_SelectiveRecipients ==
    last.op = "send_selective" =>
        \A s \in Sessions :
            /\ last.got[s] = Occurrences(last.targets, s)
            /\ last.got[s] > 0 => LastPayloadOf(s)

C12_Witness ==
    /\ last.op = "send_selective"
    /\ last.targets = <<"p", "q">>
    /\ last.arg = "q"
    /\ ~contains("p") /\ contains("q") /\ contains("r")
    /\ last.got["p"] = 1 /\ last.got["q"] = 1 /\ last.got["r"] = 0

\* the copies a pass over the members gives to s when the ids in im are immune
CopiesFor(s, im) == IF PlayerId(s) \in im THEN 0 ELSE Occurrences(players, s)

\* C13: enqueue gives the packet to every member whose id is not immune and
\* to no other session, and send(client, msg, to_self) serves the queues as
\* enqueue does with immune = {} if to_self, {client.id} otherwise.
C13_SendIsEnqueueWithImmune ==
    /\ last.op = "enqueue" =>
          \A s \in Sessions :
              /\ last.got[s] = CopiesFor(s, last.immune)
              /\ last.got[s] > 0 <=> (contains(s) /\ PlayerId(s) \notin last.immune)
    /\ last.op = "send" =>
          \A s \in Sessions :
              last.got[s] =
                  CopiesFor(s, IF last.to_self THEN {} ELSE {PlayerId(last.arg)})

C13_Witness ==
    /\ last.op = "enqueue"
    /\ last.immune = {PlayerId("p")}
    /\ contains("p") /\ contains("q") /\ ~contains("r")
    /\ last.got["p"] = 0 /\ last.got["q"] = 1 /\ last.got["r"] = 0

\* the list s begins with the list pre
HasPrefix(s, pre) == Len(s) >= Len(pre) /\ \A i \in 1..Len(pre) : s[i] = pre[i]

SpecPrefix == <<"#", "s", "p", "e", "c", "_">>
MultiPrefix == <<"#", "m", "u", "l", "t", "i", "_">>
Spectator == <<"#", "s", "p", "e", "c", "t", "a", "t", "o", "r">>
Multiplayer == <<"#", "m", "u", "l", "t", "i", "p", "l", "a", "y", "e", "r">>

\* the display name the internal name n is to have
DisplayOf(n) ==
    IF HasPrefix(n, SpecPrefix) THEN Spectator
    ELSE IF HasPrefix(n, MultiPrefix) THEN Multiplayer
    ELSE n

\* C14: the display name is '#spectator' for a '#spec_' name, '#multiplayer'
\* for a '#multi_' name and the internal name otherwise, whatever the members
\* and the topic are; every packet sent carries that name as its target.
C14_DisplayName ==
    /\ name = DisplayOf(rawname)
    /\ basic_info[1] = DisplayOf(rawname)
    /\ rawname = <<"#", "s", "p", "e", "c", "_", "4", "2">> => name = Spectator
    /\ rawname = <<"#", "m", "u", "l", "t", "i", "_", "7">> => name = Multiplayer
    /\ rawname = <<"#", "g", "e", "n", "e", "r", "a", "l">> => name = rawname
    /\ \A s \in Sessions : \A i \in 1..Len(queues[s]) :
          queues[s][i].target = DisplayOf(rawname)

C14_Witness ==
    /\ rawname = <<"#", "m", "u", "l", "t", "i", "_", "7">>
    /\ name = Multiplayer
    /\ topic = "other topic"
    /\ Len(players) >= 2
    /\ \E s \in Sessions : queues[s] # <<>> /\ queues[s][1].target = Multiplayer

\* x is not immune in the fan-out that ended last
NotImmuneLast(x) == PlayerId(x) \notin last.immune

\* C15: a pass of enqueue (or of send) serves exactly the members that were
\* not immune in the list as it stood when the pass began, in the order of
\* that list, and the list is the same when the pass ends: no join or leave
\* of another task takes effect within the pass.
C15_FanoutSeesOneMembersList ==
    last.op \in {"send", "enqueue"} =>
        /\ players = last.pre
        /\ last.order = SelectSeq(last.pre, NotImmuneLast)
        /\ \A s \in Sessions : last.got[s] = Occurrences(last.order, s)

C15_Witness ==
    /\ last.op \in {"send", "enqueue"}
    /\ pending # {}
    /\ \E q \in raced : q \in Range(last.pre)
    /\ Len(last.order) >= 1
    /\ \E s \in Sessions : contains(s) /\ ~NotImmuneLast(s)

\* the list s without its i-th entry
Without(s, i) == SubSeq(s, 1, i - 1) \o SubSeq(s, i + 1, Len(s))

\* C16: append puts the session at the end of the members list, a remove that
\* takes a member out keeps the others in their order, a send enqueues in the
\* order of the list, and in every queue the packets of one sender stand in
\* the order in which they were sent.
C16_JoinOrderAndFifo ==
    /\ last.op = "append" => players = Append(last.pre, last.arg)
    /\ (last.op = "remove" /\ last.branch = "else" /\ last.ok) =>
          \E i \in 1..Len(last.pre) :
              last.pre[i] = last.arg /\ players = Without(last.pre, i)
    /\ last.op = "send" => last.order = SelectSeq(players, NotImmuneLast)
    /\ \A s \in Sessions : \A i, j \in 1..Len(queues[s]) :
          (i < j /\ queues[s][i].client = queues[s][j].client)
              => queues[s][i].msg <= queues[s][j].msg

C16_Witness ==
    /\ last.op = "send"
    /\ Len(players) >= 2
    /\ \E s \in Sessions :
          /\ contains(s)
          /\ Len(queues[s]) = 2
          /\ queues[s][1].client = queues[s][2].client
          /\ queues[s][1].msg < queues[s][2].msg

\* C17: when remove(p) returns without raising, p is not in self.players,
\* whichever branch of remove ran. The sessions that joined twice (C1) are
\* left out: p stood at most once in self.players when the call began.
C17_LeftAfterRemove ==
    (RemoveEnded /\ last.ok /\ Occurrences(last.pre, last.arg) <= 1)
        => ~contains(last.arg)

\* the operations that fan a payload out or only read the channel
FanoutOrQuery == {"send", "enqueue", "send_selective", "query"}

\* C18: a step of send, send_selective, enqueue or of a query (name,
\* basic_info, __contains__) leaves players, topic, read, write, auto_join,
\* instance and the registration in glob.channels as they were; players
\* changes only in a step of append or remove, and glob.channels.remove is
\* requested only in a step of remove.
C18_FanoutAndQueryFrame ==
    [][ /\ last'.op \in FanoutOrQuery =>
              UNCHANGED << config, players, channels, removeCalls, pending,
                           deleted >>
        /\ players' # players => last'.op \in {"append", "remove"}
        /\ removeCalls' # removeCalls => last'.op = "remove"
      ]_vars

C18_Witness ==
    /\ last.op \in {"send", "enqueue", "send_selective"}
    /\ last.immune # {}
    /\ \E s \in Sessions : contains(s) /\ PlayerId(s) \in last.immune
    /\ \E s \in Sessions : last.got[s] >= 1
    /\ players = last.pre
    /\ Self \in channels
    /\ removeCalls = 0

\* C19: one send or enqueue puts at most one copy of the payload into the
\* queue of any one session.
C19_AtMostOneCopy ==
    last.op \in {"send", "enqueue"} => \A s \in Sessions : last.got[s] <= 1

====
